---- MODULE Spec2Model ----
(***************************************************************************)
(* Model of model_compression_toolkit/ptq/pytorch/quantization_facade.py:  *)
(* the module-level definition of pytorch_post_training_quantization and   *)
(* the control flow of one call of it, step by step, with the graphs it    *)
(* passes around kept in a heap of objects so that aliasing is visible.    *)
(***************************************************************************)
EXTENDS Integers, Sequences, FiniteSets, TLC

\* ------------------------------------------------------------------ bounds
NumNodes == 2        \* nodes of a computation graph
MaxWeight == 1       \* node weights range over 0..MaxWeight
MaxBatches == 1      \* batches one iteration of the generator yields: 0..MaxBatches

Weights == 0..MaxWeight
Modules == {1, 2}          \* identities of the modules a caller may pass
SchedulingInfos == {"schedule_a", "schedule_b"}
WeightVectors == [1..NumNodes -> Weights]
None == <<>>

\* ------------------------------------------------------------------ state
VARIABLES
    FOUND_TORCH,                  \* verify_packages.FOUND_TORCH
    facade,                       \* which definition of the function the module holds
    fw_info,                      \* framework info installed by @set_pytorch_info
    pc,                           \* position of the current call
    in_module,                    \* argument: the module (its identity)
    representative_data_gen,      \* argument: batches one iteration yields
    core_config,                  \* argument: the CoreConfig fields the facade reads
    target_platform_capabilities, \* argument, then the loaded TPC (line 117)
    framework_platform_capabilities,
    tg, scheduling_info,
    similarity_baseline_graph,
    graph_with_stats_correction,
    quantized_graph,
    exportable_model, user_info,
    graph_heap,                   \* graph objects: address -> addresses of its nodes
    node_heap,                    \* node objects: address -> weight
    log,                          \* calls made to the collaborators, in order
    gen_calls,                    \* iterations of the generator started
    batches_consumed,             \* batches drawn from the generator
    result,                       \* the returned pair, None while nothing is returned
    error,                        \* the exception that ended the call, None otherwise
    obs                           \* graph values observed at the collaborators' boundaries

args == <<in_module, representative_data_gen, core_config, target_platform_capabilities>>
locals == <<framework_platform_capabilities, tg, scheduling_info, similarity_baseline_graph,
            graph_with_stats_correction, quantized_graph, exportable_model, user_info>>
heap == <<graph_heap, node_heap>>
effects == <<log, gen_calls, batches_consumed>>
env == <<FOUND_TORCH, facade, fw_info>>
vars == <<env, pc, args, locals, heap, effects, result, error, obs>>

\* ------------------------------------------------------------------ values
MixedPrecisionConfigTypes == {"MixedPrecisionQuantizationConfig", "other"}

CoreConfigs ==
    [bypass : BOOLEAN,
     analyze_similarity : BOOLEAN,
     is_mixed_precision_enabled : BOOLEAN,
     mixed_precision_config : MixedPrecisionConfigTypes]

\* What the caller may pass as target_platform_capabilities: a TPC object (with or
\* without add_metadata) or a reference that does not resolve.
TpcArguments == {"tpc_add_metadata", "tpc_plain", "bad_reference"}

Stages == {"core_runner", "ptq_runner", "analyzer_model_quantization",
           "get_exportable_pytorch_model"}

NoObs == [core_out |-> None, ptq_out |-> None, baseline_seen |-> None,
          quantized_seen |-> None, export_ref |-> 0, export_value |-> None]

\* ------------------------------------------------------------------ heap
\* The value of the graph at address g: the weights of its nodes, in order.
GraphValue(gh, nh, g) == [i \in 1..Len(gh[g]) |-> nh[gh[g][i]]]

\* A new graph object with new node objects holding the weights ws.
NewGraph(gh, nh, ws) ==
    [graph_heap |-> Append(gh, [i \in 1..Len(ws) |-> Len(nh) + i]),
     node_heap |-> nh \o ws,
     ref |-> Len(gh) + 1]

\* copy.copy: a new graph object that shares the node objects of g.
shallow_copy(gh, nh, g) ==
    [graph_heap |-> Append(gh, gh[g]), node_heap |-> nh, ref |-> Len(gh) + 1]

\* copy.deepcopy: a new graph object with its own copies of the nodes of g.
deepcopy(gh, nh, g) == NewGraph(gh, nh, GraphValue(gh, nh, g))

\* The node heap with the nodes of graph g overwritten by the weights ws.
WriteGraph(gh, nh, g, ws) ==
    [a \in 1..Len(nh) |->
        IF \E i \in 1..Len(gh[g]) : gh[g][i] = a
        THEN ws[CHOOSE i \in 1..Len(gh[g]) : gh[g][i] = a]
        ELSE nh[a]]

\* Weight quantization to the grid of even values.
QuantizeWeight(w) == w - (w % 2)

\* ------------------------------------------------------------------ logger
\* Logger.critical logs the message and raises.
LoggerCritical(msg) == [kind |-> "critical", at |-> "facade", msg |-> msg]
Raised(stage, msg) == [kind |-> "exception", at |-> stage, msg |-> msg]

\* ------------------------------------------------------------------ init
Init ==
    /\ FOUND_TORCH \in BOOLEAN
    /\ facade = "undefined"
    /\ fw_info = "unset"
    /\ pc = "not_imported"
    /\ in_module = 0
    /\ representative_data_gen = 0
    /\ core_config = [bypass |-> FALSE, analyze_similarity |-> FALSE,
                      is_mixed_precision_enabled |-> FALSE,
                      mixed_precision_config |-> "MixedPrecisionQuantizationConfig"]
    /\ target_platform_capabilities = "tpc_plain"
    /\ framework_platform_capabilities = "unset"
    /\ tg = 0 /\ scheduling_info = "unset"
    /\ similarity_baseline_graph = 0
    /\ graph_with_stats_correction = 0
    /\ quantized_graph = 0
    /\ exportable_model = None /\ user_info = None
    /\ graph_heap = <<>> /\ node_heap = <<>>
    /\ log = <<>> /\ gen_calls = 0 /\ batches_consumed = 0
    /\ result = None /\ error = None
    /\ obs = NoObs

\* ------------------------------------------------------------------ module load
\* ImportModule without the else branch of lines 161-166.
ImportModule_no_else_branch ==
    /\ pc = "not_imported"
    /\ facade' = IF FOUND_TORCH THEN "pipeline" ELSE "undefined"
    /\ pc' = "idle"
    /\ UNCHANGED <<FOUND_TORCH, fw_info, args, locals, heap, effects, result, error, obs>>

\* Lines 36-48 and 161-166: the module defines the function either way.
ImportModule ==
    /\ pc = "not_imported"
    /\ facade' = IF FOUND_TORCH THEN "pipeline" ELSE "stub"
    /\ pc' = "idle"
    /\ UNCHANGED <<FOUND_TORCH, fw_info, args, locals, heap, effects, result, error, obs>>

\* ------------------------------------------------------------------ a call
\* A call with arbitrary arguments starts when no call is in progress. With torch,
\* the @set_pytorch_info wrapper installs the framework info and enters the body.
Call ==
    /\ pc = "idle"
    /\ in_module' \in Modules
    /\ representative_data_gen' \in 0..MaxBatches
    /\ core_config' \in CoreConfigs
    /\ target_platform_capabilities' \in TpcArguments
    /\ IF facade = "pipeline"
       THEN fw_info' = "pytorch" /\ pc' = "bypass_check"
       ELSE fw_info' = fw_info /\ pc' = "stub"
    /\ UNCHANGED <<FOUND_TORCH, facade, locals, heap, effects, result, error, obs>>

\* The call is over (returned or raised): its frame and the objects it built are
\* gone, and the caller may call again.
CallEnds ==
    /\ pc \in {"returned", "raised"}
    /\ pc' = "idle"
    /\ in_module' = 0
    /\ representative_data_gen' = 0
    /\ core_config' = [bypass |-> FALSE, analyze_similarity |-> FALSE,
                       is_mixed_precision_enabled |-> FALSE,
                       mixed_precision_config |-> "MixedPrecisionQuantizationConfig"]
    /\ target_platform_capabilities' = "tpc_plain"
    /\ framework_platform_capabilities' = "unset"
    /\ tg' = 0 /\ scheduling_info' = "unset"
    /\ similarity_baseline_graph' = 0
    /\ graph_with_stats_correction' = 0
    /\ quantized_graph' = 0
    /\ exportable_model' = None /\ user_info' = None
    /\ graph_heap' = <<>> /\ node_heap' = <<>>
    /\ log' = <<>> /\ gen_calls' = 0 /\ batches_consumed' = 0
    /\ result' = None /\ error' = None
    /\ obs' = NoObs
    /\ UNCHANGED env

\* Lines 164-166: without torch the function only calls Logger.critical.
StubCall ==
    /\ pc = "stub"
    /\ error' = LoggerCritical("PyTorch must be installed")
    /\ pc' = "raised"
    /\ UNCHANGED <<env, args, locals, heap, effects, result, obs>>

\* The caller's module as a returned value: the object itself, by identity.
ModuleValue(m) == [kind |-> "module", id |-> m, weights |-> None, metadata |-> None]

\* BypassCheck with the flag never read.
BypassCheck_flag_ignored ==
    /\ pc = "bypass_check"
    /\ pc' = "mp_check"
    /\ UNCHANGED <<env, args, locals, heap, effects, result, error, obs>>

\* BypassCheck placed after the validation of the configuration.
BypassCheck_after_validation ==
    /\ pc = "bypass_check"
    /\ IF \/ /\ core_config.is_mixed_precision_enabled
             /\ core_config.mixed_precision_config # "MixedPrecisionQuantizationConfig"
          \/ target_platform_capabilities = "bad_reference"
       THEN /\ error' = LoggerCritical("invalid configuration")
            /\ result' = result
            /\ pc' = "raised"
       ELSE /\ error' = error
            /\ IF core_config.bypass
               THEN result' = <<ModuleValue(in_module), None>> /\ pc' = "returned"
               ELSE result' = result /\ pc' = "mp_check"
    /\ UNCHANGED <<env, args, locals, heap, effects, obs>>

\* Lines 103-104.
BypassCheck ==
    /\ pc = "bypass_check"
    /\ IF core_config.bypass
       THEN /\ result' = <<ModuleValue(in_module), None>>
            /\ pc' = "returned"
       ELSE /\ result' = result
            /\ pc' = "mp_check"
    /\ UNCHANGED <<env, args, locals, heap, effects, error, obs>>

\* MixedPrecisionCheck with the type test left out.
MixedPrecisionCheck_no_type_test ==
    /\ pc = "mp_check"
    /\ pc' = "load_tpc"
    /\ UNCHANGED <<env, args, locals, heap, effects, result, error, obs>>

\* Lines 106-111.
MixedPrecisionCheck ==
    /\ pc = "mp_check"
    /\ IF /\ core_config.is_mixed_precision_enabled
          /\ core_config.mixed_precision_config # "MixedPrecisionQuantizationConfig"
       THEN /\ error' = LoggerCritical("not of type MixedPrecisionQuantizationConfig")
            /\ pc' = "raised"
       ELSE /\ error' = error
            /\ pc' = "load_tpc"
    /\ UNCHANGED <<env, args, locals, heap, effects, result, obs>>

\* Lines 113-117: the tensorboard writer and the framework implementation are
\* created (opaque handles, passed on unchanged), then the capabilities are loaded.
LoadTpc ==
    /\ pc = "load_tpc"
    /\ log' = Append(log, "load_target_platform_capabilities")
    /\ IF target_platform_capabilities = "bad_reference"
       THEN /\ error' = Raised("load_target_platform_capabilities", "invalid reference")
            /\ pc' = "raised"
       ELSE /\ error' = error
            /\ pc' = "attach_tpc"
    /\ UNCHANGED <<env, args, locals, heap, gen_calls, batches_consumed, result, obs>>

\* Lines 119-121: attaching the capabilities to the framework succeeds or raises.
AttachTpc ==
    /\ pc = "attach_tpc"
    /\ log' = Append(log, "attach")
    /\ \/ /\ framework_platform_capabilities' = target_platform_capabilities
          /\ pc' = "core_runner"
          /\ error' = error
       \/ /\ framework_platform_capabilities' = framework_platform_capabilities
          /\ pc' = "raised"
          /\ error' = Raised("attach", "cannot attach")
    /\ UNCHANGED <<env, args, tg, scheduling_info, similarity_baseline_graph,
                   graph_with_stats_correction, quantized_graph, exportable_model,
                   user_info, heap, gen_calls, batches_consumed, result, obs>>

\* AddMetadataFlag with the flag never read.
AddMetadataFlag_always(fqc) == TRUE

\* framework_platform_capabilities.tpc.add_metadata (line 154).
AddMetadataFlag(fqc) == fqc = "tpc_add_metadata"

\* Lines 124-130: the core runner iterates the generator; on an empty generator, an
\* infeasible budget or an unquantizable node it raises, otherwise it returns a new
\* graph and the scheduling info.
CoreRunner ==
    /\ pc = "core_runner"
    /\ log' = Append(log, "core_runner")
    /\ gen_calls' = gen_calls + 1
    /\ batches_consumed' = batches_consumed + representative_data_gen
    /\ \/ /\ representative_data_gen > 0
          /\ \E ws \in WeightVectors, si \in SchedulingInfos :
                LET n == NewGraph(graph_heap, node_heap, ws) IN
                /\ graph_heap' = n.graph_heap
                /\ node_heap' = n.node_heap
                /\ tg' = n.ref
                /\ scheduling_info' = si
                /\ obs' = [obs EXCEPT !.core_out = ws]
          /\ pc' = "deepcopy"
          /\ error' = error
       \/ /\ \E msg \in {"empty generator", "infeasible budget", "no valid configuration"} :
                /\ (representative_data_gen = 0) <=> (msg = "empty generator")
                /\ (msg = "infeasible budget") => core_config.is_mixed_precision_enabled
                /\ error' = Raised("core_runner", msg)
          /\ pc' = "raised"
          /\ UNCHANGED <<tg, scheduling_info, heap, obs>>
    /\ UNCHANGED <<env, args, framework_platform_capabilities, similarity_baseline_graph,
                   graph_with_stats_correction, quantized_graph, exportable_model,
                   user_info, result>>

\* Line 137.
DeepCopyBaseline ==
    /\ pc = "deepcopy"
    /\ LET c == deepcopy(graph_heap, node_heap, tg) IN
       /\ graph_heap' = c.graph_heap
       /\ node_heap' = c.node_heap
       /\ similarity_baseline_graph' = c.ref
    /\ pc' = "ptq_runner"
    /\ UNCHANGED <<env, args, framework_platform_capabilities, tg, scheduling_info,
                   graph_with_stats_correction, quantized_graph, exportable_model,
                   user_info, effects, result, error, obs>>

\* PtqRunner with its exception caught and the uncorrected graph carried on.
PtqRunner_exception_caught ==
    /\ pc = "ptq_runner"
    /\ log' = Append(log, "ptq_runner")
    /\ gen_calls' = gen_calls + 1
    /\ batches_consumed' = batches_consumed + representative_data_gen
    /\ error' = Raised("ptq_runner", "correction failed")
    /\ graph_with_stats_correction' = tg
    /\ obs' = [obs EXCEPT !.ptq_out = GraphValue(graph_heap, node_heap, tg)]
    /\ pc' = "analyze_check"
    /\ UNCHANGED <<env, args, framework_platform_capabilities, tg, scheduling_info,
                   similarity_baseline_graph, quantized_graph, exportable_model,
                   user_info, heap, result>>

\* Lines 139-143: the PTQ runner replays the generator and adjusts the weights of the
\* graph it was given, in place or in a graph of its own, or raises.
PtqRunner ==
    /\ pc = "ptq_runner"
    /\ log' = Append(log, "ptq_runner")
    /\ gen_calls' = gen_calls + 1
    /\ batches_consumed' = batches_consumed + representative_data_gen
    /\ \/ /\ \E ws \in WeightVectors :
                /\ \/ /\ node_heap' = WriteGraph(graph_heap, node_heap, tg, ws)
                      /\ graph_heap' = graph_heap
                      /\ graph_with_stats_correction' = tg
                   \/ LET n == NewGraph(graph_heap, node_heap, ws) IN
                      /\ graph_heap' = n.graph_heap
                      /\ node_heap' = n.node_heap
                      /\ graph_with_stats_correction' = n.ref
                /\ obs' = [obs EXCEPT !.ptq_out = ws]
          /\ pc' = "analyze_check"
          /\ error' = error
       \/ /\ error' = Raised("ptq_runner", "correction failed")
          /\ pc' = "raised"
          /\ UNCHANGED <<graph_with_stats_correction, heap, obs>>
    /\ UNCHANGED <<env, args, framework_platform_capabilities, tg, scheduling_info,
                   similarity_baseline_graph, quantized_graph, exportable_model,
                   user_info, result>>

\* AnalyzeCheck with the flag never read.
AnalyzeCheck_flag_ignored ==
    /\ pc = "analyze_check"
    /\ pc' = "quantize_graph_weights"
    /\ UNCHANGED <<env, args, locals, heap, effects, result, error, obs>>

\* Line 145.
AnalyzeCheck ==
    /\ pc = "analyze_check"
    /\ pc' = IF core_config.analyze_similarity THEN "quantize_graph_weights" ELSE "export"
    /\ UNCHANGED <<env, args, locals, heap, effects, result, error, obs>>

\* quantize_graph_weights: a graph of its own holding the quantized weights of g; the
\* graph g it is given is read, not written.
quantize_graph_weights(gh, nh, g) ==
    LET v == GraphValue(gh, nh, g) IN
    NewGraph(gh, nh, [i \in 1..Len(v) |-> QuantizeWeight(v[i])])

\* Line 146: the quantized graph, or an exception, which nothing in the facade catches.
QuantizeGraphWeights ==
    /\ pc = "quantize_graph_weights"
    /\ log' = Append(log, "quantize_graph_weights")
    /\ \/ LET n == quantize_graph_weights(graph_heap, node_heap,
                                           graph_with_stats_correction) IN
          /\ graph_heap' = n.graph_heap
          /\ node_heap' = n.node_heap
          /\ quantized_graph' = n.ref
          /\ pc' = "analyzer"
          /\ error' = error
       \/ /\ error' = Raised("quantize_graph_weights", "quantization failed")
          /\ pc' = "raised"
          /\ UNCHANGED <<quantized_graph, heap>>
    /\ UNCHANGED <<env, args, framework_platform_capabilities, tg, scheduling_info,
                   similarity_baseline_graph, graph_with_stats_correction,
                   exportable_model, user_info, gen_calls, batches_consumed, result, obs>>

\* Lines 147-151: the analyzer reads both graphs over the generator's batches, or
\* raises, which nothing in the facade catches.
AnalyzerModelQuantization ==
    /\ pc = "analyzer"
    /\ log' = Append(log, "analyzer_model_quantization")
    /\ gen_calls' = gen_calls + 1
    /\ batches_consumed' = batches_consumed + representative_data_gen
    /\ obs' = [obs EXCEPT
                 !.baseline_seen = GraphValue(graph_heap, node_heap, similarity_baseline_graph),
                 !.quantized_seen = GraphValue(graph_heap, node_heap, quantized_graph)]
    /\ \/ /\ pc' = "export"
          /\ error' = error
       \/ /\ error' = Raised("analyzer_model_quantization", "analysis failed")
          /\ pc' = "raised"
    /\ UNCHANGED <<env, args, locals, heap, result>>

\* ExporterArgument with the analyzer's quantized graph exported when there is one.
ExporterArgument_quantized ==
    IF quantized_graph # 0 THEN quantized_graph ELSE graph_with_stats_correction

\* The argument the facade hands to the exporter (line 153).
ExporterArgument == graph_with_stats_correction

\* Line 153: the exporter builds a model from the graph it is given, or raises.
Export ==
    /\ pc = "export"
    /\ log' = Append(log, "get_exportable_pytorch_model")
    /\ obs' = [obs EXCEPT
                 !.export_ref = ExporterArgument,
                 !.export_value = GraphValue(graph_heap, node_heap, ExporterArgument)]
    /\ \/ /\ exportable_model' =
                [kind |-> "exportable", id |-> 0,
                 weights |-> GraphValue(graph_heap, node_heap, ExporterArgument),
                 metadata |-> None]
          /\ user_info' = <<"UserInformation">>
          /\ pc' = "metadata"
          /\ error' = error
       \/ /\ error' = Raised("get_exportable_pytorch_model", "export failed")
          /\ pc' = "raised"
          /\ UNCHANGED <<exportable_model, user_info>>
    /\ UNCHANGED <<env, args, framework_platform_capabilities, tg, scheduling_info,
                   similarity_baseline_graph, graph_with_stats_correction, quantized_graph,
                   heap, gen_calls, batches_consumed, result>>

\* create_model_metadata(fqc, scheduling_info) and add_metadata(model, metadata).
create_model_metadata(fqc, si) == <<fqc, si>>
add_metadata(model, metadata) == [model EXCEPT !.metadata = metadata]

\* Lines 154-158.
MetadataAndReturn ==
    /\ pc = "metadata"
    /\ IF AddMetadataFlag(framework_platform_capabilities)
       THEN /\ exportable_model' =
                 add_metadata(exportable_model,
                              create_model_metadata(framework_platform_capabilities,
                                                    scheduling_info))
            /\ log' = Append(log, "add_metadata")
       ELSE /\ exportable_model' = exportable_model
            /\ log' = log
    /\ result' = <<exportable_model', user_info>>
    /\ pc' = "returned"
    /\ UNCHANGED <<env, args, framework_platform_capabilities, tg, scheduling_info,
                   similarity_baseline_graph, graph_with_stats_correction, quantized_graph,
                   user_info, heap, gen_calls, batches_consumed, error, obs>>

Next ==
    \/ ImportModule
    \/ Call
    \/ CallEnds
    \/ StubCall
    \/ BypassCheck
    \/ MixedPrecisionCheck
    \/ LoadTpc
    \/ AttachTpc
    \/ CoreRunner
    \/ DeepCopyBaseline
    \/ PtqRunner
    \/ AnalyzeCheck
    \/ QuantizeGraphWeights
    \/ AnalyzerModelQuantization
    \/ Export
    \/ MetadataAndReturn

Spec == Init /\ [][Next]_vars

\* ------------------------------------------------------------------ properties
InCall == pc \notin {"not_imported", "idle"}
WrongMixedPrecisionType ==
    /\ core_config.is_mixed_precision_enabled
    /\ core_config.mixed_precision_config # "MixedPrecisionQuantizationConfig"
StageLog == SelectSeq(log, LAMBDA e : e \in Stages)
Logged(name) == \E i \in 1..Len(log) : log[i] = name
Count(name) == Cardinality({i \in 1..Len(log) : log[i] = name})
IsPrefix(a, b) == Len(a) <= Len(b) /\ \A i \in 1..Len(a) : a[i] = b[i]
NodesOf(g) == IF g = 0 THEN {} ELSE {graph_heap[g][i] : i \in 1..Len(graph_heap[g])}
PreExportStages == {"load_target_platform_capabilities", "attach", "core_runner", "ptq_runner"}
AnalysisSteps == {"quantize_graph_weights", "analyzer_model_quantization"}

\* C1: with torch installed, a call with bypass set returns the pair (in_module, None)
\* with in_module the very module passed in, and at no point of such a call has any
\* collaborator been called, the generator been iterated, a batch been consumed or a
\* graph been built.
C1_BypassReturnsInputAndRunsNothing ==
    (facade = "pipeline" /\ InCall /\ core_config.bypass) =>
        /\ pc \in {"bypass_check", "returned"}
        /\ log = <<>> /\ gen_calls = 0 /\ batches_consumed = 0
        /\ graph_heap = <<>> /\ node_heap = <<>>
        /\ error = None
        /\ pc = "returned" => result = <<ModuleValue(in_module), None>>

C1_Witness ==
    /\ pc = "returned" /\ core_config.bypass
    /\ result = <<ModuleValue(in_module), None>>
    /\ core_config.analyze_similarity

\* C2: in a non-bypassed call the stages are called in the order core runner, PTQ
\* runner, similarity analyzer (only when analyze_similarity is set), exporter: at
\* every point the stages called so far are a prefix of that order, each at most
\* once, and a call that returns has called all of them, each exactly once.
ExpectedStages ==
    IF core_config.analyze_similarity
    THEN <<"core_runner", "ptq_runner", "analyzer_model_quantization",
           "get_exportable_pytorch_model">>
    ELSE <<"core_runner", "ptq_runner", "get_exportable_pytorch_model">>

C2_StagesInFixedOrderOnce ==
    (facade = "pipeline" /\ InCall /\ ~core_config.bypass) =>
        /\ IsPrefix(StageLog, ExpectedStages)
        /\ pc = "returned" =>
              /\ StageLog = ExpectedStages
              /\ Count("core_runner") = 1
              /\ Count("ptq_runner") = 1
              /\ Count("get_exportable_pytorch_model") = 1
              /\ Count("analyzer_model_quantization") =
                    (IF core_config.analyze_similarity THEN 1 ELSE 0)

C2_Witness ==
    /\ pc = "returned" /\ ~core_config.bypass /\ ~core_config.analyze_similarity
    /\ StageLog = <<"core_runner", "ptq_runner", "get_exportable_pytorch_model">>

\* C3: in a non-bypassed call with mixed precision enabled and a
\* mixed_precision_config of the wrong type, the call ends in the critical error of
\* the type test and never gets past it: no collaborator is called (the core runner
\* least of all), the generator is never iterated, nothing is exported or returned.
C3_WrongMixedPrecisionTypeIsFatalEarly ==
    (facade = "pipeline" /\ InCall /\ ~core_config.bypass /\ WrongMixedPrecisionType) =>
        /\ pc \in {"bypass_check", "mp_check", "raised"}
        /\ pc = "raised" =>
              error = LoggerCritical("not of type MixedPrecisionQuantizationConfig")
        /\ ~Logged("core_runner") /\ ~Logged("get_exportable_pytorch_model")
        /\ log = <<>>
        /\ gen_calls = 0 /\ batches_consumed = 0
        /\ exportable_model = None /\ result = None

C3_Witness ==
    /\ pc = "raised" /\ ~core_config.bypass /\ WrongMixedPrecisionType
    /\ error = LoggerCritical("not of type MixedPrecisionQuantizationConfig")
    /\ representative_data_gen > 0

\* C4 (as claimed): a failure of the similarity analyzer, or of the weight
\* quantization that prepares its graph, never ends the call: the call does not stop
\* in the exception of either.
C4_AnalysisFailureNeverAborts ==
    (pc = "raised" /\ error.at \in AnalysisSteps) =>
        /\ Logged("get_exportable_pytorch_model")
        /\ result # None

\* C5: once a stage before the export has raised (loading or attaching the
\* capabilities, the core runner, the PTQ runner), the call is over: it has stopped in
\* that exception, the failed stage is the last thing that was called, the exporter
\* was not called, and no model, graph or pair is returned.
C5_FailureBeforeExportSkipsTheRest ==
    (error # None /\ error.at \in PreExportStages) =>
        /\ pc = "raised"
        /\ log[Len(log)] = error.at
        /\ ~Logged("get_exportable_pytorch_model")
        /\ ~Logged("analyzer_model_quantization")
        /\ exportable_model = None /\ user_info = None
        /\ result = None

C5_Witness ==
    /\ pc = "raised" /\ error # None
    /\ error.at = "ptq_runner"
    /\ tg # 0

C5_WitnessInfeasibleBudget ==
    /\ pc = "raised" /\ error = Raised("core_runner", "infeasible budget")

\* C6: without torch the module still defines the function, and every call of it,
\* whatever its arguments, ends in the critical error that PyTorch must be installed:
\* no collaborator is called, the generator is never iterated, nothing is returned.
C6_WithoutTorchEveryCallIsFatal ==
    ~FOUND_TORCH =>
        /\ pc # "not_imported" => facade = "stub"
        /\ InCall =>
              /\ pc \in {"stub", "raised"}
              /\ pc = "raised" => error = LoggerCritical("PyTorch must be installed")
              /\ log = <<>> /\ gen_calls = 0 /\ batches_consumed = 0
              /\ result = None /\ exportable_model = None

C6_Witness ==
    /\ ~FOUND_TORCH /\ pc = "raised" /\ core_config.bypass
    /\ error = LoggerCritical("PyTorch must be installed")

\* C7: a call that returns returns (in_module, None) exactly when bypass is set, and
\* otherwise the exporter's model of the corrected graph with the exporter's
\* UserInformation, the model carrying the metadata made of the capabilities and the
\* core runner's scheduling info exactly when the capabilities set add_metadata.
C7_ReturnShapes ==
    pc = "returned" =>
        /\ (result = <<ModuleValue(in_module), None>>) <=> core_config.bypass
        /\ ~core_config.bypass =>
              /\ result[1].kind = "exportable"
              /\ result[1].weights = obs.export_value
              /\ obs.export_ref = graph_with_stats_correction
              /\ result[2] = <<"UserInformation">>
              /\ (result[1].metadata # None) <=>
                    (target_platform_capabilities = "tpc_add_metadata")
              /\ result[1].metadata # None =>
                    result[1].metadata = <<target_platform_capabilities, scheduling_info>>
              /\ Logged("add_metadata") <=>
                    (target_platform_capabilities = "tpc_add_metadata")

C7_Witness ==
    /\ pc = "returned" /\ ~core_config.bypass
    /\ result[1].metadata = <<"tpc_add_metadata", "schedule_b">>

C7_WitnessNoMetadata ==
    /\ pc = "returned" /\ ~core_config.bypass
    /\ result[1].metadata = None

\* C8: the baseline graph is a copy taken after the core runner returned and before
\* the PTQ runner is called, it shares no node with the working graph, the corrected
\* graph or the quantized graph, and its value stays the core runner's output: that
\* is the value the analyzer is given, whatever the PTQ runner wrote in place.
C8_BaselineIsAnIndependentCopy ==
    /\ similarity_baseline_graph # 0 =>
          /\ Logged("core_runner")
          /\ similarity_baseline_graph # tg
          /\ NodesOf(similarity_baseline_graph) \cap
                (NodesOf(tg) \cup NodesOf(graph_with_stats_correction)
                    \cup NodesOf(quantized_graph)) = {}
          /\ GraphValue(graph_heap, node_heap, similarity_baseline_graph) = obs.core_out
    /\ Logged("ptq_runner") => similarity_baseline_graph # 0
    /\ Logged("analyzer_model_quantization") => obs.baseline_seen = obs.core_out

C8_Witness ==
    /\ Logged("analyzer_model_quantization")
    /\ graph_with_stats_correction = tg
    /\ obs.ptq_out # obs.core_out
    /\ obs.baseline_seen = obs.core_out

C10_BypassBeforeValidation ==
    (facade = "pipeline" /\ InCall /\ core_config.bypass
        /\ (WrongMixedPrecisionType \/ target_platform_capabilities = "bad_reference")) =>
        /\ pc # "raised" /\ error = None
        /\ ~Logged("load_target_platform_capabilities")
        /\ pc \notin {"mp_check", "load_tpc"}
        /\ pc = "returned" => result = <<ModuleValue(in_module), None>>

C10_Witness ==
    /\ pc = "returned" /\ core_config.bypass
    /\ WrongMixedPrecisionType
    /\ target_platform_capabilities = "bad_reference"
    /\ result = <<ModuleValue(in_module), None>>
====
